---- MODULE Spec2Model ----
(***************************************************************************)
(* EWMADetector of EfficientDataStreamAnomalyDetection.py as a state       *)
(* machine.  The detector's floating-point numbers are modelled as exact   *)
(* rationals <<numerator, denominator>> in lowest terms (denominator > 0), *)
(* so arithmetic is that of the reals; rounding of IEEE doubles is not     *)
(* modelled.  None is the empty tuple.                                     *)
(***************************************************************************)
EXTENDS Integers, Sequences, FiniteSets, TLC

VARIABLES
    status,                \* "none" before __init__, "ready" after it, "ctor_failed" if it raised
    window_size,           \* self.window_size
    smoothing_factor,      \* self.smoothing_factor, a rational
    threshold_multiplier,  \* self.threshold_multiplier, a rational
    data_window,           \* self.data_window, a deque(maxlen = window_size)
    ewma,                  \* self.ewma, None or a rational
    mse,                   \* self.mse, None or a rational
    calls,                 \* history: number of update calls made
    hist,                  \* history: the samples passed to update, in order
    ret,                   \* history: outcome of the last update call
    prior                  \* history: <<ewma, mse>> as they were before the last update call

vars == <<status, window_size, smoothing_factor, threshold_multiplier,
          data_window, ewma, mse, calls, hist, ret, prior>>

(***************************************************************************)
(* Bounds of the model.                                                    *)
(***************************************************************************)
\* update is called at most MaxSteady times after the window has filled.
MaxSteady == 5
\* No product of two integers inside the rational arithmetic exceeds Limit;
\* an update whose arithmetic would is not explored.
Limit == 1000000000

\* The samples fed to update.
Values == {0, 10, 1000}

(***************************************************************************)
(* Exact rational arithmetic.                                              *)
(***************************************************************************)
None == <<>>

Abs(i) == IF i < 0 THEN -i ELSE i

RECURSIVE GCD(_, _)
GCD(a, b) == IF b = 0 THEN a ELSE GCD(b, a % b)

MulOK(a, b) == a = 0 \/ b = 0 \/ Abs(a) <= Limit \div Abs(b)

\* Overflow marker: a "rational" with denominator 0.
OVF == <<0, 0>>

IsOVF(r) == r[2] = 0

Norm(n, d) ==
    LET g == GCD(Abs(n), d)
    IN  IF n < 0 THEN <<-(Abs(n) \div g), d \div g>> ELSE <<n \div g, d \div g>>

Rat(i) == <<i, 1>>

RNeg(a) == IF IsOVF(a) THEN OVF ELSE <<-a[1], a[2]>>

RMul(a, b) ==
    IF IsOVF(a) \/ IsOVF(b) THEN OVF
    ELSE LET g1 == GCD(Abs(a[1]), b[2])
             g2 == GCD(Abs(b[1]), a[2])
             an == IF a[1] < 0 THEN -(Abs(a[1]) \div g1) ELSE a[1] \div g1
             bn == IF b[1] < 0 THEN -(Abs(b[1]) \div g2) ELSE b[1] \div g2
             ad == a[2] \div g2
             bd == b[2] \div g1
         IN  IF MulOK(an, bn) /\ MulOK(ad, bd) THEN Norm(an * bn, ad * bd) ELSE OVF

RAdd(a, b) ==
    IF IsOVF(a) \/ IsOVF(b) THEN OVF
    ELSE LET g  == GCD(a[2], b[2])
             fa == b[2] \div g
             fb == a[2] \div g
         IN  IF MulOK(a[1], fa) /\ MulOK(b[1], fb) /\ MulOK(a[2], fa)
             THEN Norm(a[1] * fa + b[1] * fb, a[2] * fa)
             ELSE OVF

RSub(a, b) == RAdd(a, RNeg(b))

RSq(a) == RMul(a, a)

\* a / n for an integer n > 0
RDivInt(a, n) == RMul(a, <<1, n>>)

\* a and b can be compared by cross-multiplication
RCmpOK(a, b) == ~IsOVF(a) /\ ~IsOVF(b) /\ MulOK(a[1], b[2]) /\ MulOK(b[1], a[2])

RLt(a, b) == a[1] * b[2] < b[1] * a[2]

RECURSIVE RSum(_)
RSum(s) == IF s = <<>> THEN Rat(0) ELSE RAdd(s[1], RSum(Tail(s)))

(***************************************************************************)
(* The configurations a detector is constructed with: valid ones, and the  *)
(* invalid ones of the documented parameter ranges.                        *)
(***************************************************************************)
Cfg(ws, a, k) == [window_size |-> ws, smoothing_factor |-> a, threshold_multiplier |-> k]

ValidConfigs ==
    { Cfg(5, <<1, 5>>, <<2, 1>>),
      Cfg(6, <<1, 4>>, <<2, 1>>),
      Cfg(3, <<1, 2>>, <<2, 1>>),
      Cfg(2, <<1, 2>>, <<1, 1>>),
      Cfg(2, <<1, 1>>, <<1, 1>>),
      Cfg(2, <<1, 1>>, <<1, 2>>) }

InvalidConfigs ==
    { Cfg(1, <<1, 5>>, <<2, 1>>),
      Cfg(0, <<1, 5>>, <<2, 1>>),
      Cfg(-1, <<1, 5>>, <<2, 1>>),
      Cfg(2, <<0, 1>>, <<2, 1>>),
      Cfg(2, <<3, 2>>, <<2, 1>>),
      Cfg(2, <<1, 5>>, <<0, 1>>) }

Configs == ValidConfigs \cup InvalidConfigs

\* The ranges documented for the parameters (docstring of __init__).
ValidConfig ==
    /\ window_size >= 2
    /\ smoothing_factor[1] > 0 /\ smoothing_factor[1] <= smoothing_factor[2]
    /\ threshold_multiplier[1] > 0

(***************************************************************************)
(* EWMADetector.__init__                                                   *)
(***************************************************************************)
Init ==
    /\ status = "none"
    /\ window_size = 0
    /\ smoothing_factor = Rat(0)
    /\ threshold_multiplier = Rat(0)
    /\ data_window = <<>>
    /\ ewma = None
    /\ mse = None
    /\ calls = 0
    /\ hist = <<>>
    /\ ret = "none"
    /\ prior = <<None, None>>

\* deque(maxlen=window_size) raises ValueError for a negative maxlen; nothing
\* else in __init__ looks at the arguments.
DequeAccepts(maxlen) == maxlen >= 0

Construct(c) ==
    /\ status = "none"
    /\ window_size' = c.window_size
    /\ smoothing_factor' = c.smoothing_factor
    /\ threshold_multiplier' = c.threshold_multiplier
    /\ status' = IF DequeAccepts(c.window_size) THEN "ready" ELSE "ctor_failed"
    /\ data_window' = <<>>
    /\ ewma' = None
    /\ mse' = None
    /\ UNCHANGED <<calls, hist, ret, prior>>

(***************************************************************************)
(* EWMADetector.update                                                     *)
(***************************************************************************)
\* deque.append on a deque with maxlen: the oldest entry is dropped when full.
Push(dw, value, maxlen) ==
    IF maxlen = 0 THEN dw
    ELSE IF Len(dw) = maxlen THEN Append(Tail(dw), value)
    ELSE Append(dw, value)

\* Mutant: the window is taken for full one sample early.
StillFillingOffByOne(dw, ws) == Len(dw) < ws - 1

\* Mutant: <= for <, so a full window still counts as filling.
StillFillingInclusive(dw, ws) == Len(dw) <= ws

\* "if len(self.data_window) < self.window_size: return False"
StillFilling(dw, ws) == Len(dw) < ws

\* sum(self.data_window) / self.window_size
BatchMean(dw, ws) == RDivInt(RSum([i \in 1..Len(dw) |-> Rat(dw[i])]), ws)

\* Mutant: mean absolute deviation, the square forgotten.
BatchMseAbsolute(dw, m, ws) ==
    RDivInt(RSum([i \in 1..Len(dw) |->
                    LET d == RSub(Rat(dw[i]), m) IN <<Abs(d[1]), d[2]>>]), ws)

\* sum((x - self.ewma) ** 2 for x in self.data_window) / self.window_size
BatchMse(dw, m, ws) ==
    RDivInt(RSum([i \in 1..Len(dw) |-> RSq(RSub(Rat(dw[i]), m))]), ws)

\* The "if self.ewma is None" branch: <<ewma, mse>> from the full window.
\* With window_size = 0 the division raises ZeroDivisionError before
\* anything is assigned.
BatchInit(dw, ws) ==
    IF ws = 0 THEN <<None, None>>
    ELSE LET m == BatchMean(dw, ws) IN <<m, BatchMse(dw, m, ws)>>

\* (self.smoothing_factor * value) + ((1 - self.smoothing_factor) * self.ewma)
EwmaStep(a, value, m) ==
    RAdd(RMul(a, Rat(value)), RMul(RSub(Rat(1), a), m))

\* Mutant: the decayed prior variance is subtracted instead of added.
MseStepSubtract(a, value, m2, v) ==
    RSub(RMul(a, RSq(RSub(Rat(value), m2))), RMul(RSub(Rat(1), a), v))

\* (self.smoothing_factor * (value - self.ewma) ** 2) + ((1 - self.smoothing_factor) * self.mse),
\* where self.ewma is already the updated mean m2
MseStep(a, value, m2, v) ==
    RAdd(RMul(a, RSq(RSub(Rat(value), m2))), RMul(RSub(Rat(1), a), v))

\* Mutant: the variance is updated before the mean, so it reads the prior mean.
SteadyStepPriorMean(a, value, m, v) ==
    <<EwmaStep(a, value, m), MseStep(a, value, m, v)>>

\* Mutant: the estimates are never updated after the bootstrap.
SteadyStepFrozen(a, value, m, v) == <<m, v>>

\* The else branch: self.ewma is assigned first, then self.mse reads it.
SteadyStep(a, value, m, v) ==
    LET m2 == EwmaStep(a, value, m) IN <<m2, MseStep(a, value, m2, v)>>

\* abs(value - self.ewma) > self.threshold_multiplier * math.sqrt(self.mse),
\* for v >= 0 and k >= 0: both sides are nonnegative, so their squares
\* compare alike and the square root need not be taken.
Deviation2(value, m) == RSq(RSub(Rat(value), m))

\* Mutant: the multiplier put under the square root, sqrt(k * mse).
Threshold2UnderRoot(k, v) == RMul(k, v)

Threshold2(k, v) == RMul(RSq(k), v)

\* Mutant: >= for >.
IsAnomalyNonStrict(value, m, v, k) == ~RLt(Deviation2(value, m), Threshold2(k, v))

IsAnomaly(value, m, v, k) == RLt(Threshold2(k, v), Deviation2(value, m))

\* <<ewma, mse>> after update(value), dw2 being the window after the append.
NewEstimates(c, dw2, m, v, value) ==
    IF StillFilling(dw2, c.window_size) THEN <<m, v>>
    ELSE IF m = None THEN BatchInit(dw2, c.window_size)
    ELSE SteadyStep(c.smoothing_factor, value, m, v)

\* What the call returns or raises.
Outcome(c, dw2, value, m2, v2) ==
    IF StillFilling(dw2, c.window_size) THEN "False"
    ELSE IF m2 = None THEN "ZeroDivisionError"        \* sum([]) / 0
    ELSE IF v2[1] < 0 THEN "ValueError"               \* math.sqrt of a negative
    ELSE IF IsAnomaly(value, m2, v2, c.threshold_multiplier) THEN "True"
    ELSE "False"

\* The arithmetic of the call stays within Limit.
Computable(c, dw2, value, m2, v2) ==
    IF StillFilling(dw2, c.window_size) \/ m2 = None THEN TRUE
    ELSE IF IsOVF(m2) \/ IsOVF(v2) THEN FALSE
    ELSE RCmpOK(Threshold2(c.threshold_multiplier, v2), Deviation2(value, m2))

\* update(value) on a detector of configuration c in state st.
Step(c, st, value) ==
    LET dw2 == Push(st.data_window, value, c.window_size)
        est == NewEstimates(c, dw2, st.ewma, st.mse, value)
        ok  == st.ok /\ Computable(c, dw2, value, est[1], est[2])
    IN  [data_window |-> dw2,
         ewma |-> est[1],
         mse  |-> est[2],
         ret  |-> IF ok THEN Outcome(c, dw2, value, est[1], est[2]) ELSE "none",
         ok   |-> ok]

Config == Cfg(window_size, smoothing_factor, threshold_multiplier)

Update(value) ==
    /\ status = "ready"
    /\ calls < window_size + MaxSteady
    /\ LET r == Step(Config, [data_window |-> data_window, ewma |-> ewma,
                              mse |-> mse, ok |-> TRUE], value)
       IN  /\ r.ok
           /\ data_window' = r.data_window
           /\ ewma' = r.ewma
           /\ mse' = r.mse
           /\ ret' = r.ret
    /\ calls' = calls + 1
    /\ hist' = Append(hist, value)
    /\ prior' = <<ewma, mse>>
    /\ UNCHANGED <<status, window_size, smoothing_factor, threshold_multiplier>>

\* A fresh detector of configuration c fed the samples of s in order.
Fresh == [data_window |-> <<>>, ewma |-> None, mse |-> None, ret |-> "none", ok |-> TRUE]

RECURSIVE Replay(_, _)
Replay(c, s) ==
    IF s = <<>> THEN Fresh
    ELSE Step(c, Replay(c, SubSeq(s, 1, Len(s) - 1)), s[Len(s)])

\* Bounds check: no update of the bootstrap phase is cut off by Limit.
BootstrapWithinLimit ==
    (status = "ready" /\ calls < window_size) =>
        \A value \in Values :
            Step(Config, [data_window |-> data_window, ewma |-> ewma,
                          mse |-> mse, ok |-> TRUE], value).ok

Next ==
    \/ \E c \in Configs : Construct(c)
    \/ \E value \in Values : Update(value)

Spec == Init /\ [][Next]_vars

(***************************************************************************)
(* Properties.                                                             *)
(***************************************************************************)
Ready == status = "ready"

RECURSIVE SumSeq(_)
SumSeq(s) == IF s = <<>> THEN 0 ELSE s[1] + SumSeq(Tail(s))

RECURSIVE SumSq(_)
SumSq(s) == IF s = <<>> THEN 0 ELSE s[1] * s[1] + SumSq(Tail(s))

\* The sample of the last update call.
LastValue == hist[Len(hist)]

\* C1: each of the first window_size - 1 calls to update returns False and
\* leaves ewma and mse absent, whatever the configuration and the samples.
C1_BootstrapBlindSpot ==
    (Ready /\ calls >= 1 /\ calls <= window_size - 1) =>
        (ret = "False" /\ ewma = None /\ mse = None)

C1_Witness ==
    /\ Ready /\ ValidConfig
    /\ calls = window_size - 1 /\ calls >= 4
    /\ \A i \in 1..Len(hist) : hist[i] = 1000
    /\ ret = "False" /\ ewma = None

\* C2: a configuration outside the documented ranges (window_size < 2,
\* smoothing_factor outside (0, 1], threshold_multiplier <= 0) is rejected
\* at construction: no usable detector holds one.
C2_InvalidConfigRejected == Ready => ValidConfig

\* C3: after exactly window_size samples on a fresh detector, ewma is their
\* arithmetic mean S/n and mse the mean of their squared deviations from it,
\* which is (n*Q - S*S)/(n*n) for S the sum and Q the sum of squares.
C3_BatchInitialization ==
    (Ready /\ window_size >= 1 /\ calls = window_size) =>
        LET n == window_size
            S == SumSeq(hist)
            Q == SumSq(hist)
        IN  /\ ewma = Norm(S, n)
            /\ mse = Norm(n * Q - S * S, n * n)

C3_Witness ==
    /\ Ready /\ ValidConfig /\ calls = window_size
    /\ ewma # None /\ ewma[2] > 1
    /\ mse # None /\ mse[1] > 0

C4Cfg == Cfg(5, <<1, 5>>, <<2, 1>>)

C4Seq == <<10, 10, 10, 10, 10, 10, 10, 10, 10, 1000>>

\* C4: with (window_size 5, smoothing_factor 0.2, threshold_multiplier 2)
\* and samples 10 (nine times) then 1000: calls 1..9 return False, call 5
\* leaves ewma = 10 and mse = 0, and call 10 returns True.
C4_SpikeScenario ==
    (Ready /\ Config = C4Cfg /\ calls >= 1 /\ calls <= Len(C4Seq)
           /\ hist = SubSeq(C4Seq, 1, calls)) =>
        /\ ret = IF calls = Len(C4Seq) THEN "True" ELSE "False"
        /\ calls < 5 => (ewma = None /\ mse = None)
        /\ calls = 5 => (ewma = Rat(10) /\ mse = Rat(0))

C4_Witness == Ready /\ Config = C4Cfg /\ hist = C4Seq /\ ret = "True"

\* C5: under a valid configuration mse, once present, is never negative,
\* so math.sqrt(self.mse) is defined.
C5_VarianceNonNegative ==
    (Ready /\ ValidConfig /\ mse # None) => (mse[1] >= 0 /\ ret # "ValueError")

C5_Witness ==
    /\ Ready /\ ValidConfig /\ calls > window_size + 1
    /\ mse # None /\ mse[1] > 0 /\ smoothing_factor # Rat(1)

\* C6: ewma and mse become present exactly on call number window_size, the
\* call that fills data_window, both together, and never become absent again.
C6_OneWayTransition ==
    (Ready /\ window_size >= 1) =>
        /\ (ewma # None) <=> (calls >= window_size)
        /\ (ewma # None) <=> (Len(data_window) = window_size)
        /\ (ewma = None) <=> (mse = None)
        /\ (prior[1] # None \/ prior[2] # None) => (ewma # None /\ mse # None)

C6_Witness ==
    /\ Ready /\ ValidConfig /\ calls > window_size
    /\ ewma # None /\ mse # None

C7Cfg == Cfg(2, <<1, 2>>, <<1, 1>>)

C7SeqA == <<10, 10, 10, 1000>>

C7SeqB == <<10, 10, 1000, 10>>

C7SeqA1 == Append(C7SeqA, 1000)

C7SeqB1 == Append(C7SeqB, 1000)

\* C7: the steady-state update is order-dependent.  With window_size 2,
\* smoothing_factor 1/2, threshold_multiplier 1 and bootstrap window 10, 10:
\* the samples 10, 1000 and their permutation 1000, 10 leave different
\* (ewma, mse), and a following sample 1000 gets a different verdict.
C7_OrderDependent ==
    (Ready /\ Config = C7Cfg) =>
        /\ hist = C7SeqA =>
               LET other == Replay(C7Cfg, C7SeqB)
               IN  other.ok /\ <<ewma, mse>> # <<other.ewma, other.mse>>
        /\ hist = C7SeqA1 =>
               LET other == Replay(C7Cfg, C7SeqB1)
               IN  other.ret \in {"True", "False"} /\ ret # other.ret

C7_Witness ==
    /\ Ready /\ Config = C7Cfg
    /\ hist = C7SeqA1
    /\ ret \in {"True", "False"}

\* C8: a call made after the initializing call, with prior estimates (m, v)
\* and sample x, leaves ewma' = a*x + (1-a)*m and mse' = a*(x - ewma')^2 +
\* (1-a)*v, the deviation taken from the UPDATED mean, and returns True iff
\* |x - ewma'| > k*sqrt(mse'), i.e. iff (x - ewma')^2 > k^2 * mse'.
C8_SteadyRecurrence ==
    (Ready /\ ValidConfig /\ calls > window_size) =>
        LET x   == LastValue
            a   == smoothing_factor
            b   == RSub(Rat(1), smoothing_factor)
            dev == RSq(RSub(Rat(x), ewma))
            thr == RMul(RSq(threshold_multiplier), mse)
        IN  /\ ewma = RAdd(RMul(a, Rat(x)), RMul(b, prior[1]))
            /\ mse = RAdd(RMul(a, dev), RMul(b, prior[2]))
            /\ ret = IF RLt(thr, dev) THEN "True" ELSE "False"

C8_Witness ==
    /\ Ready /\ ValidConfig /\ calls > window_size
    /\ smoothing_factor # Rat(1)
    /\ mse[1] > 0 /\ ret = "True"

\* C9: the call that completes the bootstrap returns True iff
\* |x - S/n| > k*sqrt((n*Q - S*S)/(n*n)), the batch statistics of the full
\* window including x; in integers, (n*x - S)^2 * kd^2 > kn^2 * (n*Q - S*S)
\* for k = kn/kd.  So it returns True for some windows.
C9_InitCallVerdict ==
    (Ready /\ window_size >= 1 /\ calls = window_size) =>
        LET n  == window_size
            S  == SumSeq(hist)
            Q  == SumSq(hist)
            d  == n * LastValue - S
            kn == threshold_multiplier[1]
            kd == threshold_multiplier[2]
        IN  (ret = "True") <=> (d * d * kd * kd > kn * kn * (n * Q - S * S))

C9_Witness ==
    /\ Ready /\ Config = Cfg(6, <<1, 4>>, <<2, 1>>)
    /\ hist = <<0, 0, 0, 0, 0, 10>>
    /\ ret = "True"
    /\ Replay(Config, <<0, 0, 0, 0, 0, 6>>).ret = "True"

\* k^2 * a >= 1, for k the threshold multiplier and a the smoothing factor
KSquaredAlphaAtLeastOne ==
    threshold_multiplier[1] * threshold_multiplier[1] * smoothing_factor[1]
        >= threshold_multiplier[2] * threshold_multiplier[2] * smoothing_factor[2]

\* C10, first half: under a valid configuration with k^2 * a >= 1 no call
\* after the initializing call returns True.
C10_NeverAnomalous ==
    (Ready /\ ValidConfig /\ KSquaredAlphaAtLeastOne /\ calls > window_size)
        => ret = "False"

\* C10, second half as claimed: with prior mse = 0 and k^2 * a < 1, every
\* sample different from the prior mean returns True.
C10_ZeroVarianceAlwaysAnomalous ==
    (Ready /\ ValidConfig /\ ~KSquaredAlphaAtLeastOne /\ calls >= 1
        /\ prior[2] = Rat(0) /\ Rat(LastValue) # prior[1])
        => ret = "True"

\* C10 as claimed (both halves).
C10_Original == C10_NeverAnomalous /\ C10_ZeroVarianceAlwaysAnomalous

\* C10 amended: the second half holds for smoothing_factor < 1; with
\* smoothing_factor = 1 the updated mean is the sample itself, the deviation
\* is 0 and the call returns False.
C10_Amended ==
    /\ C10_NeverAnomalous
    /\ smoothing_factor # Rat(1) => C10_ZeroVarianceAlwaysAnomalous
    /\ (Ready /\ ValidConfig /\ smoothing_factor = Rat(1) /\ calls > window_size)
           => ret = "False"

C10_Witness ==
    /\ Ready /\ ValidConfig /\ ~KSquaredAlphaAtLeastOne
    /\ smoothing_factor # Rat(1)
    /\ calls = window_size + 1
    /\ \A i \in 1..window_size : hist[i] = 10
    /\ LastValue = 1000 /\ ret = "True"

C10_WitnessNever ==
    /\ Ready /\ ValidConfig /\ KSquaredAlphaAtLeastOne
    /\ calls > window_size /\ mse[1] > 0 /\ LastValue = 1000 /\ ret = "False"


====
